---- MODULE Spec2Model ----
(***************************************************************************)
(* The browser front end of the code indexer (App.js, SearchResults.js)    *)
(* together with the HTTP backend it talks to.  The two React components   *)
(* are translated from their source; the backend, whose code is not part   *)
(* of the sources at hand, is modelled from the design document (sections  *)
(* 3, 4.5, 4.7, 6 and 7).                                                  *)
(*                                                                         *)
(* A request is sent by a handler, handled by the backend in one step      *)
(* (which produces the response) and delivered to the continuation of the  *)
(* handler in a later step, so requests overtake one another freely.       *)
(*                                                                         *)
(* One component is mounted at a time: App at "/", SearchResults at        *)
(* "/results".  handleSearch navigates from the first to the second, the   *)
(* browser's Back button from the second to the first, and each navigation *)
(* mounts a new instance with the initial state of its useState hooks.     *)
(* Nothing cancels the requests of an instance that is no longer mounted:   *)
(* they stay pending, are answered and their callbacks run, but the        *)
(* setState calls of those callbacks change nothing.                       *)
(***************************************************************************)
EXTENDS Naturals, Sequences, FiniteSets, TLC

VARIABLES
    route,            \* "/" while App is mounted, "/results" while SearchResults is
    path,             \* App: useState("")
    loading,          \* App: useState(false)
    message,          \* App: useState("")
    projects,         \* App: useState([])
    selectedProject,  \* App: useState("")
    query,            \* App: useState(""), a sequence of characters
    locationQuery,    \* SearchResults: location.state.query (<<>> when absent)
    results,          \* SearchResults: useState([])
    resultsQuery,     \* the query of the request whose response `results` holds
    reqs,             \* requests sent and not yet handled by the backend
    resps,            \* responses produced and not yet delivered to the browser
    nextId,           \* number of requests sent so far
    userRequests,     \* how many of them a selection, Submit or a search started
    mountId,          \* number of the component instance that is mounted
    registry,         \* backend: the registered projects, in registration order
    activeProject,    \* backend: the Active Project Pointer
    lastEvent         \* "handleSearch" right after a click on Search, else "other"

vars == <<route, path, loading, message, projects, selectedProject, query,
          locationQuery, results, resultsQuery,
          reqs, resps, nextId, userRequests, mountId, registry, activeProject,
          lastEvent>>

appVars == <<path, loading, message, projects, selectedProject, query>>
srVars == <<locationQuery, results, resultsQuery>>
backendVars == <<registry, activeProject>>

-----------------------------------------------------------------------------
(* Bounds of the model *)

\* The requests the user may start (a selection, a Submit, a search); the
\* requests the code sends on its own, the mount-time GET and the refresh
\* after a successful POST, are always sent.
MaxRequests == 3

\* The component instances mounted in a run: the first App, and one more
\* for each navigation (Search to /results, Back to /).
MaxMounts == 3

-----------------------------------------------------------------------------
(* Values *)

None == "<none>"          \* the Active Project Pointer before it is first set
NoQuery == <<"<none>">>   \* resultsQuery while results is still its initial value

\* The code points String.prototype.trim strips: WhiteSpace (tab, VT, FF,
\* space, NBSP, ZWNBSP and the Unicode space separators) and LineTerminator
\* (LF, CR, LS, PS).  A character outside ASCII is written as its code point.
Whitespace ==
    {"\t", "U+000B", "\f", " ", "U+00A0", "U+FEFF",
     "U+1680", "U+2000", "U+2001", "U+2002", "U+2003", "U+2004", "U+2005",
     "U+2006", "U+2007", "U+2008", "U+2009", "U+200A", "U+202F", "U+205F",
     "U+3000",
     "\n", "\r", "U+2028", "U+2029"}

\* The texts the query box can hold (a text input never holds LF or CR):
\* empty, blank (a tab and a no-break space), plain, and padded on both
\* sides (a space before, a no-break space after).
Queries == {<<>>, <<"\t", "U+00A0">>, <<"x">>, <<" ", "x", "U+00A0">>}

\* The paths that exist on the backend's disk, and the text typed into the
\* path box; the box's initial "" is a path that does not exist.
ValidPaths == {"/repo/a", "/repo/b"}
PathInputs == {"/repo/b"}

ErrorMessage == "Error processing the path."
NoResultsText == "No results found."

-----------------------------------------------------------------------------
(* Pure functions of the front end *)

RECURSIVE TrimStart(_)
TrimStart(s) ==
    IF s # <<>> /\ Head(s) \in Whitespace THEN TrimStart(Tail(s)) ELSE s

RECURSIVE TrimEnd(_)
TrimEnd(s) ==
    IF s # <<>> /\ s[Len(s)] \in Whitespace THEN TrimEnd(SubSeq(s, 1, Len(s) - 1)) ELSE s

\* A plausible slip: the text is tested as typed, without trimming.
TrimSkipped(s) == s

\* String.prototype.trim
Trim(s) == TrimEnd(TrimStart(s))

\* JavaScript truthiness of a string (or of undefined, modelled as <<>>)
Truthy(s) == s # <<>>

\* handleSearch returns early on `!query.trim()`
SearchAccepted(q) == Truthy(Trim(q))

\* <button disabled={loading}>
SubmitEnabled == ~loading

\* The values the <select> offers: the placeholder and one option per project.
Options == {""} \cup {projects[i].path : i \in 1..Len(projects)}

\* One rendered result entry.
Card(res) ==
    [file     |-> res.metadata.file_path,
     language |-> res.metadata.language,
     lines    |-> <<res.metadata.start_line, res.metadata.end_line>>,
     sources  |-> res.sources,
     code     |-> res.metadata.code]

\* A plausible slip: the entries are rendered last to first.
RenderReversed(q, rs) ==
    [heading |-> q,
     notice  |-> IF Len(rs) = 0 THEN NoResultsText ELSE "",
     cards   |-> [i \in 1..Len(rs) |-> Card(rs[Len(rs) + 1 - i])]]

\* What SearchResults presents for a query and a result list.
Render(q, rs) ==
    [heading |-> q,
     notice  |-> IF Len(rs) = 0 THEN NoResultsText ELSE "",
     cards   |-> [i \in 1..Len(rs) |-> Card(rs[i])]]

View == Render(locationQuery, results)

-----------------------------------------------------------------------------
(* The backend, from the design document *)

NameOf(p) ==
    CASE p = "/repo/a" -> "a"
      [] p = "/repo/b" -> "b"
      [] OTHER -> p

Project(p) == [name |-> NameOf(p), path |-> p]

RegisteredPaths == {registry[i].path : i \in 1..Len(registry)}

\* First successful indexing creates the project; re-indexing keeps it in place.
Register(reg, p) ==
    IF \E i \in 1..Len(reg) : reg[i].path = p THEN reg ELSE Append(reg, Project(p))

IndexedMessage == "Path processed."

Chunk(file, first, last, score) ==
    [metadata |-> [file_path |-> file, language |-> "python",
                   start_line |-> first, end_line |-> last, code |-> "..."],
     score    |-> score,
     sources  |-> <<"semantic">>]

\* The embedding records of each project's collection; /repo/b holds only
\* empty files, so its collection exists and is empty.
Collection(p) ==
    IF p = "/repo/a"
    THEN {Chunk("ab.py", 1, 9, 5), Chunk("a.py", 7, 9, 5), Chunk("a.py", 3, 6, 5),
          Chunk("abc.py", 1, 2, 9)}
    ELSE {}

\* Descending score, then shorter file path, then lower start line.
RankedBefore(a, b) ==
    \/ a.score > b.score
    \/ /\ a.score = b.score
       /\ Len(a.metadata.file_path) < Len(b.metadata.file_path)
    \/ /\ a.score = b.score
       /\ Len(a.metadata.file_path) = Len(b.metadata.file_path)
       /\ a.metadata.start_line < b.metadata.start_line

RECURSIVE SortByRank(_)
SortByRank(S) ==
    IF S = {} THEN <<>>
    ELSE LET best == CHOOSE c \in S : \A d \in S \ {c} : RankedBefore(c, d)
         IN  <<best>> \o SortByRank(S \ {best})

\* The result count of a search that names none, as POST /search { query }
\* does: the configured default.
DefaultK == 10

\* The k nearest records of a collection, ranked.
TopK(S, k) ==
    LET ranked == SortByRank(S)
    IN  SubSeq(ranked, 1, IF k < Len(ranked) THEN k ELSE Len(ranked))

\* A plausible slip: with no active project the first collection is searched.
SearchTargetDefaulting == IF activeProject = None THEN "/repo/a" ELSE activeProject

\* The collection a query runs against: the active project's, if one is set.
SearchTarget == activeProject

-----------------------------------------------------------------------------
(* Requests and responses *)

Request(id, kind, from, m, p, q) ==
    [id |-> id, kind |-> kind, from |-> from, mount |-> m, path |-> p, query |-> q]

Response(r, ok, ps, msg, rs) ==
    [id |-> r.id, kind |-> r.kind, from |-> r.from, mount |-> r.mount,
     query |-> r.query,
     ok |-> ok, projects |-> ps, message |-> msg, results |-> rs]

Failure(r) == Response(r, FALSE, <<>>, "", <<>>)

InFlight(kind) == {m \in reqs \cup resps : m.kind = kind}

\* A request of component instance m
Send(kind, from, m, p, q) ==
    /\ reqs' = reqs \cup {Request(nextId + 1, kind, from, m, p, q)}
    /\ nextId' = nextId + 1

\* The user starts one more request.
Started ==
    /\ userRequests < MaxRequests
    /\ userRequests' = userRequests + 1

\* Whether the instance that sent the request of response s is still mounted
Mounted(s) == s.mount = mountId

\* A navigation unmounts the mounted instance and mounts the next one.
Navigated ==
    /\ mountId < MaxMounts
    /\ mountId' = mountId + 1

\* setState on a component that is no longer mounted changes nothing.
AppSet(s, cur, new) == IF Mounted(s) THEN new ELSE cur

InitialRegistries == {<<>>, <<Project("/repo/a")>>}

Init ==
    /\ route = "/"
    /\ path = ""
    /\ loading = FALSE
    /\ message = ""
    /\ projects = <<>>
    /\ selectedProject = ""
    /\ query = <<>>
    /\ locationQuery = <<>>
    /\ results = <<>>
    /\ resultsQuery = NoQuery
    /\ reqs = {Request(1, "get_projects", "mount", 1, "", <<>>)}
    /\ resps = {}
    /\ nextId = 1
    /\ userRequests = 0
    /\ mountId = 1
    /\ registry \in InitialRegistries
    /\ activeProject = None
    /\ lastEvent = "other"

-----------------------------------------------------------------------------
(* App: what the user does *)

\* onChange of the path input
setPath(p) ==
    /\ route = "/"
    /\ p # path
    /\ path' = p
    /\ lastEvent' = "other"
    /\ UNCHANGED <<route, loading, message, projects, selectedProject, query,
                   srVars, reqs, resps, nextId, userRequests, mountId, backendVars>>

\* onChange of the query input
setQuery(q) ==
    /\ route = "/"
    /\ q # query
    /\ query' = q
    /\ lastEvent' = "other"
    /\ UNCHANGED <<route, path, loading, message, projects, selectedProject,
                   srVars, reqs, resps, nextId, userRequests, mountId, backendVars>>

\* onChange of the project <select>: the selection is shown at once and the
\* backend is told; the handler's catch only logs.
handleProjectSelect(selectedPath) ==
    /\ route = "/"
    /\ Started
    /\ selectedPath \in Options
    /\ selectedPath # selectedProject
    /\ selectedProject' = selectedPath
    /\ Send("set_active_project", "handleProjectSelect", mountId, selectedPath, <<>>)
    /\ lastEvent' = "other"
    /\ UNCHANGED <<route, path, loading, message, projects, query,
                   srVars, resps, mountId, backendVars>>

\* onClick of Submit, up to the first await
handleProcessPath ==
    /\ route = "/"
    /\ Started
    /\ SubmitEnabled
    /\ loading' = TRUE
    /\ message' = ""
    /\ Send("process_path", "handleProcessPath", mountId, path, <<>>)
    /\ lastEvent' = "other"
    /\ UNCHANGED <<route, path, projects, selectedProject, query,
                   srVars, resps, mountId, backendVars>>

\* The effect of SearchResults instance m, run when it mounts and when
\* query changes.
SearchEffect(m, q) ==
    IF Truthy(q)
    THEN Send("search", "SearchResults", m, "", q)
    ELSE UNCHANGED <<reqs, nextId>>

\* onClick of Search: a blank query returns early, any other navigates to
\* /results, which unmounts App (its state stays as it was until App is
\* mounted again) and mounts SearchResults with the query as location state.
\* Each navigation mounts a new instance, numbered by mountId.
handleSearch ==
    /\ route = "/"
    /\ lastEvent' = "handleSearch"
    /\ IF ~SearchAccepted(query)
       THEN UNCHANGED <<route, appVars, srVars, reqs, resps, nextId,
                        userRequests, mountId, backendVars>>
       ELSE /\ Started
            /\ route' = "/results"
            /\ Navigated
            /\ locationQuery' = query
            /\ results' = <<>>
            /\ resultsQuery' = NoQuery
            /\ SearchEffect(mountId + 1, query)
            /\ UNCHANGED <<appVars, resps, backendVars>>

-----------------------------------------------------------------------------
(* SearchResults: a new location state while it is mounted *)

\* The location states navigate("/results", { state: { query } }) can carry:
\* the queries handleSearch lets through.
LocationStates == {q \in Queries : SearchAccepted(q)}

locationChange(q) ==
    /\ route = "/results"
    /\ Started
    /\ q \in LocationStates
    /\ q # locationQuery
    /\ locationQuery' = q
    /\ SearchEffect(mountId, q)
    /\ lastEvent' = "other"
    /\ UNCHANGED <<route, appVars, results, resultsQuery, resps, mountId,
                   backendVars>>

\* The browser's Back button on /results: SearchResults is unmounted and a
\* new App is mounted, with the initial state of its hooks and its mount
\* effect, whatever requests of the earlier App are still pending.
navigateBack ==
    /\ route = "/results"
    /\ route' = "/"
    /\ Navigated
    /\ path' = ""
    /\ loading' = FALSE
    /\ message' = ""
    /\ projects' = <<>>
    /\ selectedProject' = ""
    /\ query' = <<>>
    /\ locationQuery' = <<>>
    /\ results' = <<>>
    /\ resultsQuery' = NoQuery
    /\ Send("get_projects", "mount", mountId + 1, "", <<>>)
    /\ lastEvent' = "other"
    /\ UNCHANGED <<resps, userRequests, backendVars>>

-----------------------------------------------------------------------------
(* The backend handles a request *)

Reply(r, s) ==
    /\ reqs' = reqs \ {r}
    /\ resps' = resps \cup {s}
    /\ lastEvent' = "other"
    /\ UNCHANGED <<route, appVars, srVars, nextId, userRequests, mountId>>

serveGetProjects(r) ==
    /\ r \in reqs
    /\ r.kind = "get_projects"
    /\ Reply(r, Response(r, TRUE, registry, "", <<>>))
    /\ UNCHANGED backendVars

serveProcessPath(r) ==
    /\ r \in reqs
    /\ r.kind = "process_path"
    /\ IF r.path \in ValidPaths
       THEN /\ registry' = Register(registry, r.path)
            /\ Reply(r, Response(r, TRUE, <<>>, IndexedMessage, <<>>))
       ELSE /\ registry' = registry
            /\ Reply(r, Failure(r))
    /\ UNCHANGED activeProject

serveSetActiveProject(r) ==
    /\ r \in reqs
    /\ r.kind = "set_active_project"
    /\ IF r.path \in RegisteredPaths
       THEN /\ activeProject' = r.path
            /\ Reply(r, Response(r, TRUE, <<>>, "", <<>>))
       ELSE /\ activeProject' = activeProject
            /\ Reply(r, Failure(r))
    /\ UNCHANGED registry

serveSearch(r) ==
    /\ r \in reqs
    /\ r.kind = "search"
    /\ IF SearchTarget = None \/ r.query = <<>>
       THEN Reply(r, Failure(r))
       ELSE Reply(r, Response(r, TRUE, <<>>, "",
                               TopK(Collection(SearchTarget), DefaultK)))
    /\ UNCHANGED backendVars

\* Any request can fail without reaching the core: the connection drops, the
\* store is unreachable.
requestFails(r) ==
    /\ r \in reqs
    /\ Reply(r, Failure(r))
    /\ UNCHANGED backendVars

-----------------------------------------------------------------------------
(* The browser delivers a response to the callback waiting for it *)

Take(s) ==
    /\ s \in resps
    /\ resps' = resps \ {s}

\* .then / .catch of the mount-time GET /get_projects
mountProjectsResponded(s) ==
    /\ Take(s)
    /\ s.kind = "get_projects" /\ s.from = "mount"
    /\ projects' = IF s.ok THEN AppSet(s, projects, s.projects) ELSE projects
    /\ lastEvent' = "other"
    /\ UNCHANGED <<route, path, loading, message, selectedProject, query,
                   srVars, reqs, nextId, userRequests, mountId, backendVars>>

\* handleProcessPath after `await axios.post`: on success the message is set
\* and the refresh is requested; on failure catch and finally run.
processPathResponded(s) ==
    /\ Take(s)
    /\ s.kind = "process_path"
    /\ IF s.ok
       THEN /\ message' = AppSet(s, message, s.message)
            /\ Send("get_projects", "handleProcessPath", s.mount, "", <<>>)
            /\ loading' = loading
       ELSE /\ message' = AppSet(s, message, ErrorMessage)
            /\ loading' = AppSet(s, loading, FALSE)
            /\ UNCHANGED <<reqs, nextId>>
    /\ lastEvent' = "other"
    /\ UNCHANGED <<route, path, projects, selectedProject, query,
                   srVars, userRequests, mountId, backendVars>>

\* handleProcessPath after `await axios.get`: the same try block, so a failed
\* refresh reaches the same catch.
refreshResponded(s) ==
    /\ Take(s)
    /\ s.kind = "get_projects" /\ s.from = "handleProcessPath"
    /\ IF s.ok
       THEN /\ projects' = AppSet(s, projects, s.projects)
            /\ message' = message
       ELSE /\ projects' = projects
            /\ message' = AppSet(s, message, ErrorMessage)
    /\ loading' = AppSet(s, loading, FALSE)
    /\ lastEvent' = "other"
    /\ UNCHANGED <<route, path, selectedProject, query,
                   srVars, reqs, nextId, userRequests, mountId, backendVars>>

\* handleProjectSelect after `await axios.post`: nothing is set either way.
setActiveProjectResponded(s) ==
    /\ Take(s)
    /\ s.kind = "set_active_project"
    /\ lastEvent' = "other"
    /\ UNCHANGED <<route, appVars, srVars, reqs, nextId, userRequests, mountId, backendVars>>

\* .then / .catch of POST /search
searchResponded(s) ==
    /\ Take(s)
    /\ s.kind = "search"
    /\ IF s.ok /\ Mounted(s)
       THEN /\ results' = s.results
            /\ resultsQuery' = s.query
       ELSE UNCHANGED <<results, resultsQuery>>
    /\ lastEvent' = "other"
    /\ UNCHANGED <<route, appVars, locationQuery, reqs, nextId, userRequests, mountId,
                   backendVars>>

-----------------------------------------------------------------------------

UserActs ==
    \/ \E p \in PathInputs \cup {""} : setPath(p)
    \/ \E q \in Queries : setQuery(q)
    \/ \E p \in ValidPaths \cup {""} : handleProjectSelect(p)
    \/ handleProcessPath
    \/ handleSearch
    \/ \E q \in Queries : locationChange(q)
    \/ navigateBack

BackendActs ==
    \/ \E r \in reqs : serveGetProjects(r)
    \/ \E r \in reqs : serveProcessPath(r)
    \/ \E r \in reqs : serveSetActiveProject(r)
    \/ \E r \in reqs : serveSearch(r)
    \/ \E r \in reqs : requestFails(r)

Callbacks ==
    \/ \E s \in resps : mountProjectsResponded(s)
    \/ \E s \in resps : processPathResponded(s)
    \/ \E s \in resps : refreshResponded(s)
    \/ \E s \in resps : setActiveProjectResponded(s)
    \/ \E s \in resps : searchResponded(s)

Next == UserActs \/ BackendActs \/ Callbacks

Spec == Init /\ [][Next]_vars

\* A response that has arrived is handed to its callback; nothing obliges the
\* backend to answer, and no request of the front end carries a timeout.
FairSpec == Spec /\ WF_vars(Callbacks)

-----------------------------------------------------------------------------
(* Properties *)

IsBlank(q) == \A i \in 1..Len(q) : q[i] \in Whitespace

\* The responses a step hands to their callbacks
Delivered(kind) == {s \in resps : s.kind = kind /\ s \notin resps'}

\* C1: a query that is empty or only whitespace never reaches POST /search:
\* no search request ever carries such a query, and a click on Search with
\* such a query sends no request and navigates nowhere (the requests already
\* pending, those of an earlier /results page included, stay as they are).
BlankQueryNeverSearched ==
    /\ [](\A m \in InFlight("search") : ~IsBlank(m.query))
    /\ [][(lastEvent' = "handleSearch" /\ IsBlank(query)) =>
              /\ route' = "/" /\ mountId' = mountId
              /\ reqs' = reqs /\ nextId' = nextId]_vars

BlankQueryClicked ==
    lastEvent = "handleSearch" /\ query = <<"\t", "U+00A0">> /\ route = "/"

\* C2: while no set_active_project request has succeeded, no search succeeds
\* and SearchResults shows no result entry.
NoActiveProjectNoResults ==
    activeProject = None =>
        /\ View.cards = <<>>
        /\ \A s \in resps : s.kind = "search" => ~s.ok

SearchAnsweredWithoutActiveProject ==
    /\ activeProject = None
    /\ route = "/results"
    /\ Truthy(locationQuery)
    /\ InFlight("search") = {}

\* C3: at most one POST /process_path of handleProcessPath is in flight.
AtMostOneProcessPathInFlight ==
    Cardinality(InFlight("process_path")) <= 1

\* C4: whenever loading is true on the mounted App it becomes false again.
LoadingEventuallyFalse ==
    (route = "/" /\ loading) ~> (route # "/" \/ ~loading)

\* C5: what SearchResults presents after a failed POST /search differs from
\* what it presents after a search that succeeds with zero results.
SearchErrorDistinctFromEmpty ==
    [][(\E s \in Delivered("search") : ~s.ok) =>
           Render(locationQuery', results') # Render(locationQuery', <<>>)]_vars

\* C6: no step removes a project from the projects list of the mounted App.
ProjectsNeverRemoved ==
    [][route = "/" =>
           \A i \in 1..Len(projects) :
               \E j \in 1..Len(projects') : projects'[j] = projects[i]]_vars

\* The entry SearchResults is to show for result r of a response.
Shown(r) ==
    [file     |-> r.metadata.file_path,
     language |-> r.metadata.language,
     lines    |-> <<r.metadata.start_line, r.metadata.end_line>>,
     sources  |-> r.sources,
     code     |-> r.metadata.code]

\* Result b of a response has to come before result a.
Outranks(b, a) ==
    LET key(r) == <<r.score, Len(r.metadata.file_path), r.metadata.start_line>>
    IN  \/ key(b)[1] > key(a)[1]
        \/ key(b)[1] = key(a)[1] /\ key(b)[2] < key(a)[2]
        \/ key(b)[1] = key(a)[1] /\ key(b)[2] = key(a)[2] /\ key(b)[3] < key(a)[3]

\* C7: when a successful /search response is delivered to the mounted
\* SearchResults, what it then shows is exactly the results of that response,
\* one entry per result in the order received, and that order is the ranked
\* one: descending score, then shorter file path, then lower start line.
\* Between deliveries the entries shown change only when the page changes.
ResultsShownInRankedOrder ==
    [][LET arrived == {s \in Delivered("search") : s.ok /\ Mounted(s)}
       IN  /\ \A s \in arrived :
                  /\ DOMAIN View'.cards = 1..Len(s.results)
                  /\ \A i \in 1..Len(s.results) :
                         View'.cards[i] = Shown(s.results[i])
                  /\ (View'.notice = NoResultsText) <=> (s.results = <<>>)
                  /\ \A i, k \in 1..Len(s.results) :
                         i < k => ~Outranks(s.results[k], s.results[i])
           /\ (View'.cards # View.cards) => (route' # route \/ arrived # {})]_vars

FourRankedResultsShown ==
    /\ route = "/results"
    /\ Len(View.cards) = 4
    /\ View.cards[1].file = "abc.py"
    /\ View.cards[2].lines[1] = 3
    /\ View.cards[3].lines[1] = 7
    /\ View.cards[4].file = "ab.py"

\* C8: with no set_active_project request in flight, the project selected
\* in the App is the backend's active project ("" when none was ever set).
SelectedProjectMatchesBackend ==
    (route = "/" /\ InFlight("set_active_project") = {}) =>
        selectedProject = (IF activeProject = None THEN "" ELSE activeProject)

\* C9: when handleProcessPath completes, the message is the error text if
\* the POST /process_path failed and the backend's message otherwise.
MessageReportsPostOutcome ==
    [][(route = "/" /\ loading /\ ~loading') =>
           IF \E s \in Delivered("process_path") : ~s.ok
           THEN message' = ErrorMessage
           ELSE message' = IndexedMessage]_vars

\* C10: with no /search request in flight, results is the initial empty
\* list or the response to the request sent for the current query.
ResultsBelongToQuery ==
    (route = "/results" /\ InFlight("search") = {}) =>
        (resultsQuery = NoQuery \/ resultsQuery = locationQuery)

====
